---- MODULE Spec2Model ----
(***************************************************************************)
(* rifme: a command-line client of the rifme.net rhyme service.            *)
(*                                                                         *)
(* Text (cookie header, URL, standard output) is a sequence of one-        *)
(* character strings, so that formatting is computed, not assumed.         *)
(* A parsed HTML document is the sequence of its elements in document      *)
(* order (the order scraper's select() visits them); an element is a       *)
(* record of its tag and of the two attributes the program looks at.       *)
(***************************************************************************)
EXTENDS Integers, Sequences, FiniteSets

VARIABLES
    args,       \* the parsed command line (struct Args)
    service,    \* what rifme.net answers to a request, by syllable count
    pc,         \* position of main: "start", "waiting", "printed", "panicked"
    sent,       \* the requests dispatched so far, in dispatch order
    fut,        \* per dispatched get_rifme future: "pending", "done", "failed"
    result,     \* per dispatched future: the Vec<String> it returned
    overtaken,  \* some future returned while one submitted before it had not
    rhymes,     \* the variable rhymes of main
    stdout,     \* the characters written to standard output
    input,      \* argument of the function under test (function harnesses)
    output      \* what the function under test returned

vars == <<args, service, pc, sent, fut, result, overtaken, rhymes, stdout,
          input, output>>

\* Option<T>: None is the empty sequence, Some(x) the sequence holding x
None == <<>>
Some(x) == <<x>>
Unwrap(opt) == opt[1]

----------------------------------------------------------------------------
(* Bounds of the model *)

\* command-line integers of the program run are drawn from -MaxArg..MaxArg
MaxArg == 1
\* documents given to get_rhymes hold at most MaxDocLen elements
MaxDocLen == 3

----------------------------------------------------------------------------
(* Types *)

\* enum PartOfSpeech
PartOfSpeech == {"Noun", "Adj", "Verb", "Other"}

\* the discriminants of PartOfSpeech: `part as i8`
PartCode(part) ==
    CASE part = "Noun" -> 1
      [] part = "Adj" -> 2
      [] part = "Verb" -> 3
      [] part = "Other" -> 0

\* the range 1..=8 of the fan-out
FanOut == 8

\* i8
I8Bits == 8
I8 == (0 - 2^(I8Bits - 1)) .. (2^(I8Bits - 1) - 1)

USER_AGENT ==
    "Mozilla/5.0 (X11; Linux x86_64; rv:78.0) Gecko/20100101 Firefox/78.0"

----------------------------------------------------------------------------
(* Formatting *)

Digits == <<"0", "1", "2", "3", "4", "5", "6", "7", "8", "9">>

RECURSIVE FmtNat(_)
FmtNat(n) ==
    IF n < 10 THEN <<Digits[n + 1]>>
    ELSE FmtNat(n \div 10) \o <<Digits[(n % 10) + 1]>>

\* format!("{}", n) of an i8
FmtI8(n) == IF n < 0 THEN <<"-">> \o FmtNat(0 - n) ELSE FmtNat(n)

SlogovKey == <<"s", "l", "o", "g", "o", "v", "c", "o", "o", "k", "i", "e", "=">>
ChastKey == <<"c", "h", "a", "s", "t", "c", "o", "o", "k", "i", "e", "=">>
BaseUrl == <<"h", "t", "t", "p", "s", ":", "/", "/", "r", "i", "f", "m", "e",
             ".", "n", "e", "t", "/", "r", "/">>

\* faulty variant: the part of speech is written before the syllables
build_cookie_part_first(options) ==
    (IF options.part # None
       THEN ChastKey \o FmtI8(PartCode(Unwrap(options.part))) \o <<";">>
       ELSE <<>>)
    \o (IF options.syllables # None
          THEN SlogovKey \o FmtI8(Unwrap(options.syllables)) \o <<";">>
          ELSE <<>>)

build_cookie(options) ==
    (IF options.syllables # None
       THEN SlogovKey \o FmtI8(Unwrap(options.syllables)) \o <<";">>
       ELSE <<>>)
    \o (IF options.part # None
          THEN ChastKey \o FmtI8(PartCode(Unwrap(options.part))) \o <<";">>
          ELSE <<>>)

\* faulty variant: an emphasis of 0, the last syllable, is taken for "no emphasis"
build_url_truthy(word, options) ==
    BaseUrl \o word
    \o (IF options.emphasis # None /\ Unwrap(options.emphasis) # 0
          THEN <<"/">> \o FmtI8(Unwrap(options.emphasis))
          ELSE <<>>)

\* the URL get_rifme builds
build_url(word, options) ==
    BaseUrl \o word
    \o (IF options.emphasis # None
          THEN <<"/">> \o FmtI8(Unwrap(options.emphasis))
          ELSE <<>>)

\* the GET request get_rifme and get_page put on the wire
Request(word, options) ==
    [options |-> options,
     url |-> build_url(word, options),
     cookie |-> build_cookie(options),
     user_agent |-> USER_AGENT]

----------------------------------------------------------------------------
(* Extraction *)

\* faulty variant: every list item is selected, whatever its class
Selected_any_li(el) == el.tag = "li"

\* Selector::parse("li[class=riLi]"): the class attribute equals riLi
Selected(el) == el.tag = "li" /\ el.class = Some("riLi")

\* a panic of the program, in place of a returned value
Panic == [ok |-> FALSE, words |-> <<>>]
Ok(words) == [ok |-> TRUE, words |-> words]

\* faulty variant: an item without data-w is skipped, as filter_map would
get_rhymes_skip(doc) ==
    LET items == SelectSeq(doc, LAMBDA el : Selected(el) /\ el.dataw # None)
    IN  Ok([k \in 1..Len(items) |-> Unwrap(items[k].dataw)])

\* attr("data-w").unwrap() on every selected item, collected in order
get_rhymes(doc) ==
    LET items == SelectSeq(doc, Selected)
    IN  IF \E k \in 1..Len(items) : items[k].dataw = None
          THEN Panic
          ELSE Ok([k \in 1..Len(items) |-> Unwrap(items[k].dataw)])

----------------------------------------------------------------------------
(* The rhyme service *)

WordA == <<"a">>
WordB == <<"b", "a">>
WordV == <<"v">>
Words == {WordA, WordB, WordV}

Li(w) == [tag |-> "li", class |-> Some("riLi"), dataw |-> Some(w)]
LiNoWord == [tag |-> "li", class |-> Some("riLi"), dataw |-> None]
Para == [tag |-> "p", class |-> None, dataw |-> None]

\* the page of the service for each syllable count: different lists under
\* different counts, one word (WordA) under several counts, one empty list
Page(n) ==
    CASE n % 4 = 1 -> <<Li(WordA), Para, Li(WordB)>>
      [] n % 4 = 2 -> <<Li(WordV)>>
      [] n % 4 = 3 -> <<Li(WordB), Li(WordA)>>
      [] OTHER -> <<>>

FaultKinds == {"send", "text", "attr"}
Faults == {None} \cup {Some([at |-> n, kind |-> k]) : n \in 1..FanOut, k \in FaultKinds}

\* the answer to the request for n syllables under a fault: the request is
\* refused ("send"), its body cannot be read ("text"), or its page has a
\* selected item without data-w ("attr")
Answer(fault, n) ==
    IF fault # None /\ Unwrap(fault).at = n
      THEN CASE Unwrap(fault).kind = "send" -> [kind |-> "send", body |-> <<>>]
             [] Unwrap(fault).kind = "text" -> [kind |-> "text", body |-> <<>>]
             [] OTHER -> [kind |-> "ok", body |-> <<Li(WordA), LiNoWord, Li(WordB)>>]
      ELSE [kind |-> "ok", body |-> Page(n)]

----------------------------------------------------------------------------
(* The program *)

OptInts(S) == {None} \cup {Some(n) : n \in S}

Args ==
    [word : {WordA},
     syllables : OptInts((0 - MaxArg) .. MaxArg),
     part : {None} \cup {Some(p) : p \in PartOfSpeech},
     emphasis : {None, Some(0), Some(2)}]

Idle ==
    /\ pc = "start"
    /\ sent = <<>>
    /\ fut = <<>>
    /\ result = <<>>
    /\ overtaken = FALSE
    /\ rhymes = <<>>
    /\ stdout = <<>>

Init ==
    /\ args \in Args
    /\ service \in Faults
    /\ Idle
    /\ input = None
    /\ output = None

\* faulty variant: a syllable count of 0 is taken for a count to request
Single_from_zero(a) == (IF a.syllables = None THEN 0 - 1 ELSE Unwrap(a.syllables)) >= 0

\* args.syllables.unwrap_or(-1) > 0
Single(a) == (IF a.syllables = None THEN 0 - 1 ELSE Unwrap(a.syllables)) > 0

Options(syllables, a) ==
    [syllables |-> syllables, part |-> a.part, emphasis |-> a.emphasis]

\* the first poll of get_rifme(word, options): the request goes out
Dispatched(list) ==
    /\ sent' = list
    /\ fut' = [k \in 1..Len(list) |-> "pending"]
    /\ result' = [k \in 1..Len(list) |-> <<>>]
    /\ pc' = "waiting"
    /\ UNCHANGED <<args, service, overtaken, rhymes, stdout, input, output>>

\* main, the branch of one request
DispatchSingle ==
    /\ pc = "start"
    /\ Single(args)
    /\ Dispatched(<<Request(args.word, Options(args.syllables, args))>>)

\* faulty variant: the range stops short of 8
FanOutRange_exclusive == 1 .. (FanOut - 1)

\* (1..=8)
FanOutRange == 1 .. FanOut

\* main, the branch of join_all over 1..=8
DispatchFanOut ==
    /\ pc = "start"
    /\ ~Single(args)
    /\ Dispatched([k \in FanOutRange |->
                     Request(args.word, Options(Some(k), args))])

\* faulty variant: a request that fails counts for an empty list
get_rifme_lenient(answer) ==
    IF answer.kind # "ok" THEN Ok(<<>>)
    ELSE IF get_rhymes(answer.body).ok THEN get_rhymes(answer.body) ELSE Ok(<<>>)

\* get_rifme once the service has answered: get_page(..).await.unwrap(),
\* parse_document, get_rhymes(doc).unwrap()
get_rifme(answer) ==
    IF answer.kind # "ok" THEN Panic ELSE get_rhymes(answer.body)

\* faulty variant: outputs are kept in the order the futures complete
Store_completion_order(slots, k, words) ==
    LET free == {j \in 1..Len(slots) : fut[j] # "done"}
        n == Len(slots) - Cardinality(free) + 1
    IN  [slots EXCEPT ![n] = words]

\* join_all keeps the output of each future in the slot of that future
Store(slots, k, words) == [slots EXCEPT ![k] = words]

\* the answer to request k arrives and the future k is polled to its end;
\* a panic in it unwinds through join_all and main: the process aborts.
\* Answers that are ready at one poll of join_all are handled in the order
\* of the futures, which is one of the orders this action allows; the two
\* awaits of get_page (send, text) are taken as one arrival, the kind of the
\* answer telling which of them failed.
Respond(k) ==
    /\ pc = "waiting"
    /\ k \in 1..Len(sent)
    /\ fut[k] = "pending"
    /\ LET out == get_rifme(Answer(service, Unwrap(sent[k].options.syllables)))
       IN  IF out.ok
             THEN /\ fut' = [fut EXCEPT ![k] = "done"]
                  /\ result' = Store(result, k, out.words)
                  /\ overtaken' = (overtaken \/ \E j \in 1..(k - 1) : fut[j] = "pending")
                  /\ UNCHANGED pc
             ELSE /\ fut' = [fut EXCEPT ![k] = "failed"]
                  /\ pc' = "panicked"
                  /\ UNCHANGED <<result, overtaken>>
    /\ UNCHANGED <<args, service, sent, rhymes, stdout, input, output>>

RECURSIVE Flatten(_)
\* into_iter().map(|result| result.unwrap()).flatten().collect()
Flatten(lists) ==
    IF lists = <<>> THEN <<>> ELSE Head(lists) \o Flatten(Tail(lists))

RECURSIVE Dedup(_)
\* faulty variant: a word is kept at its first occurrence only
Dedup(words) ==
    IF words = <<>> THEN <<>>
    ELSE LET front == Dedup(SubSeq(words, 1, Len(words) - 1))
             w == words[Len(words)]
         IN  IF \E j \in 1..Len(front) : front[j] = w
               THEN front ELSE Append(front, w)

Collect_dedup(lists) == Dedup(Flatten(lists))

\* the value of `rhymes` once every future has returned
Collect(lists) == Flatten(lists)

RECURSIVE Join(_, _)
\* rhymes.join(sep)
Join(words, sep) ==
    IF words = <<>> THEN <<>>
    ELSE IF Len(words) = 1 THEN words[1]
    ELSE words[1] \o sep \o Join(Tail(words), sep)

\* println!("{}", text)
Println(text) == text \o <<"\n">>

\* every future has returned: main binds rhymes and prints them
PrintRhymes ==
    /\ pc = "waiting"
    /\ \A k \in 1..Len(sent) : fut[k] = "done"
    /\ rhymes' = Collect(result)
    /\ stdout' = Println(Join(rhymes', <<"\n">>))
    /\ pc' = "printed"
    /\ UNCHANGED <<args, service, sent, fut, result, overtaken, input, output>>

Next ==
    \/ DispatchSingle
    \/ DispatchFanOut
    \/ \E k \in 1..FanOut : Respond(k)
    \/ PrintRhymes

Spec == Init /\ [][Next]_vars

----------------------------------------------------------------------------
(* Function harnesses: one call of a function on an argument drawn from a  *)
(* bounded set; the program itself stays idle.                             *)

Harness(inputs) ==
    /\ input \in inputs
    /\ output = None
    /\ args = None
    /\ service = None
    /\ Idle

Returns(value) ==
    /\ output = None
    /\ output' = Some(value)
    /\ UNCHANGED <<args, service, pc, sent, fut, result, overtaken, rhymes,
                   stdout, input>>

OptParts == {None} \cup {Some(p) : p \in PartOfSpeech}

\* struct RifmeOptions, every syllable count an i8 can hold
CookieInputs ==
    [syllables : OptInts(I8), part : OptParts, emphasis : OptInts((0 - 1) .. 1)]

InitCookie == Harness(CookieInputs)
CallBuildCookie == Returns(build_cookie(input))
SpecCookie == InitCookie /\ [][CallBuildCookie]_vars

\* a word and a RifmeOptions, every emphasis an i8 can hold
UrlInputs ==
    [word : Words,
     options : [syllables : {None, Some(3)},
                part : {None, Some("Verb")},
                emphasis : OptInts(I8)]]

InitUrl == Harness(UrlInputs)
CallBuildUrl == Returns(build_url(input.word, input.options))
SpecUrl == InitUrl /\ [][CallBuildUrl]_vars

\* the elements a document is made of
Elements ==
    [tag : {"li", "p"},
     class : {None, Some("riLi"), Some("riLi big")},
     dataw : {None, Some(WordA), Some(WordB)}]

RECURSIVE SeqsUpTo(_, _)
SeqsUpTo(S, n) ==
    IF n = 0 THEN {<<>>}
    ELSE LET shorter == SeqsUpTo(S, n - 1)
         IN  shorter \cup {Append(q, x) : q \in shorter, x \in S}

Docs == SeqsUpTo(Elements, MaxDocLen)

InitExtract == Harness(Docs)
CallGetRhymes == Returns(get_rhymes(input))
SpecExtract == InitExtract /\ [][CallGetRhymes]_vars

----------------------------------------------------------------------------
(* Reading text back: what a receiver of the cookie, the URL and the       *)
(* output finds in them                                                    *)

RECURSIVE Scan(_, _, _)
Scan(text, ch, k) ==
    IF k > Len(text) THEN 0
    ELSE IF text[k] = ch THEN k
    ELSE Scan(text, ch, k + 1)

\* the position of the first ch in text, 0 when there is none
IndexOf(text, ch) == Scan(text, ch, 1)

RECURSIVE Segments(_, _)
\* the pieces of text that end at each ch; a last piece without ch counts
Segments(text, ch) ==
    IF text = <<>> THEN <<>>
    ELSE LET k == IndexOf(text, ch)
         IN  IF k = 0 THEN <<text>>
             ELSE <<SubSeq(text, 1, k - 1)>>
                  \o Segments(SubSeq(text, k + 1, Len(text)), ch)

IsDigit(ch) == \E d \in 1..10 : Digits[d] = ch
DigitValue(ch) == (CHOOSE d \in 1..10 : Digits[d] = ch) - 1

RECURSIVE ReadNat(_)
ReadNat(text) ==
    IF Len(text) = 1 THEN DigitValue(text[1])
    ELSE 10 * ReadNat(SubSeq(text, 1, Len(text) - 1)) + DigitValue(text[Len(text)])

IsNat(text) == text # <<>> /\ \A k \in 1..Len(text) : IsDigit(text[k])
IsInt(text) == IsNat(text) \/ (text # <<>> /\ text[1] = "-" /\ IsNat(Tail(text)))
ReadInt(text) == IF text[1] = "-" THEN 0 - ReadNat(Tail(text)) ELSE ReadNat(text)

\* a `key=value` piece as the pair of its key and its integer value
ReadPair(piece) ==
    LET k == IndexOf(piece, "=")
    IN  <<SubSeq(piece, 1, k - 1), ReadInt(SubSeq(piece, k + 1, Len(piece)))>>

IsPair(piece) ==
    LET k == IndexOf(piece, "=")
    IN  k > 1 /\ IsInt(SubSeq(piece, k + 1, Len(piece)))

\* the pairs of a cookie header, in the order they are written
ReadCookie(cookie) ==
    LET pieces == Segments(cookie, ";")
    IN  [k \in 1..Len(pieces) |-> ReadPair(pieces[k])]

\* every piece of the cookie is a pair closed by its semicolon
WellFormedCookie(cookie) ==
    LET pieces == Segments(cookie, ";")
    IN  /\ cookie # <<>> => cookie[Len(cookie)] = ";"
        /\ \A k \in 1..Len(pieces) : IsPair(pieces[k])

SyllablesKey == <<"s", "l", "o", "g", "o", "v", "c", "o", "o", "k", "i", "e">>
PartKey == <<"c", "h", "a", "s", "t", "c", "o", "o", "k", "i", "e">>

\* the integer codes of the parts of speech
CodeOf == [Noun |-> 1, Adj |-> 2, Verb |-> 3, Other |-> 0]

----------------------------------------------------------------------------
(* Claims about build_cookie, under SpecCookie *)

\* C4: the cookie of a RifmeOptions holds the syllable pair if syllables is
\* present, then the part-of-speech pair if part is present, each written
\* `key=value;` with the syllable value as given and the part as its integer
\* code; absent fields leave nothing, both absent give the empty string, and
\* the emphasis changes nothing.
C4_CookieEncoding ==
    output # None =>
        LET cookie == Unwrap(output)
            syl == IF input.syllables = None THEN <<>>
                   ELSE << <<SyllablesKey, Unwrap(input.syllables)>> >>
            part == IF input.part = None THEN <<>>
                    ELSE << <<PartKey, CodeOf[Unwrap(input.part)]>> >>
        IN  /\ WellFormedCookie(cookie)
            /\ ReadCookie(cookie) = syl \o part
            /\ (input.syllables = None /\ input.part = None) => cookie = <<>>
            /\ \A e \in OptInts(I8) :
                   build_cookie([input EXCEPT !.emphasis = e]) = cookie

\* a negative syllable count and the part Other, both present, encoded
C4_Witness ==
    /\ output # None
    /\ input.syllables = Some(0 - 128)
    /\ input.part = Some("Other")
    /\ input.emphasis # None
    /\ Len(ReadCookie(Unwrap(output))) = 2

----------------------------------------------------------------------------
(* Claims about the URL of get_rifme, under SpecUrl *)

\* C5: the URL is the service base, /r/ and the word, followed by a slash
\* and the emphasis exactly when the emphasis is present (0 and negative
\* values included); syllables and part do not change it.
C5_UrlConstruction ==
    output # None =>
        LET url == Unwrap(output)
            stem == BaseUrl \o input.word
            rest == SubSeq(url, Len(stem) + 1, Len(url))
        IN  /\ Len(url) >= Len(stem)
            /\ SubSeq(url, 1, Len(stem)) = stem
            /\ input.options.emphasis = None => rest = <<>>
            /\ input.options.emphasis # None =>
                   /\ rest # <<>>
                   /\ rest[1] = "/"
                   /\ IsInt(Tail(rest))
                   /\ ReadInt(Tail(rest)) = Unwrap(input.options.emphasis)
            /\ \A syl \in OptInts(I8), part \in OptParts :
                   build_url(input.word,
                             [input.options EXCEPT !.syllables = syl, !.part = part])
                   = url

\* an emphasis of 0 gives a URL that ends with /0
C5_Witness ==
    /\ output # None
    /\ input.options.emphasis = Some(0)
    /\ input.options.syllables # None
    /\ Unwrap(output)[Len(Unwrap(output))] = "0"
    /\ Unwrap(output)[Len(Unwrap(output)) - 1] = "/"

----------------------------------------------------------------------------
(* Claims about get_rhymes, under SpecExtract *)

\* a list item whose class attribute is riLi
IsRhymeItem(el) == el.tag = "li" /\ el.class = Some("riLi")

RhymeItems(doc) == {k \in 1..Len(doc) : IsRhymeItem(doc[k])}

\* C6: when every rhyme item of the document carries data-w, get_rhymes
\* returns one string per rhyme item, the data-w of that item, in document
\* order, and nothing for any other element; no rhyme item gives the empty
\* sequence, not a failure.
C6_ExtractionInOrder ==
    (output # None /\ \A k \in RhymeItems(input) : input[k].dataw # None) =>
        LET out == Unwrap(output)
            items == RhymeItems(input)
        IN  /\ out.ok
            /\ Len(out.words) = Cardinality(items)
            /\ \A k \in items :
                   out.words[Cardinality({j \in items : j <= k})]
                   = Unwrap(input[k].dataw)
            /\ items = {} => out.words = <<>>

\* two rhyme items with different words around an element that is none
C6_Witness ==
    /\ output # None
    /\ Len(input) = 3
    /\ RhymeItems(input) = {1, 3}
    /\ input[2].tag = "li"
    /\ input[2].dataw # None
    /\ Unwrap(output).words = <<WordB, WordA>>

\* C7: when at least one rhyme item lacks data-w, the extraction fails and
\* returns no word, wherever the item is and whatever the other items are.
C7_ExtractionAllOrNothing ==
    (output # None /\ \E k \in RhymeItems(input) : input[k].dataw = None) =>
        /\ ~Unwrap(output).ok
        /\ Unwrap(output).words = <<>>

\* the item without data-w comes last, after two well-formed rhyme items
C7_Witness ==
    /\ output # None
    /\ Len(input) = 3
    /\ RhymeItems(input) = {1, 2, 3}
    /\ input[1].dataw # None
    /\ input[2].dataw # None
    /\ input[3].dataw = None
    /\ ~Unwrap(output).ok

----------------------------------------------------------------------------
(* Claims about the program, under Spec *)

\* the command line asks for one syllable count
OneCount == args.syllables # None /\ Unwrap(args.syllables) > 0

\* the service fails the request for n syllables
RequestFails(n) == service # None /\ Unwrap(service).at = n

\* the words of the page the service holds for n syllables
SubResult(n) ==
    LET page == Answer(service, n).body
        items == RhymeItems(page)
    IN  [k \in 1..Cardinality(items) |->
            Unwrap(page[CHOOSE i \in items :
                            Cardinality({j \in items : j <= i}) = k].dataw)]

\* C1: in fan-out mode the combined list is the eight sub-results one after
\* the other in syllable-count order 1..8, in whatever order the answers
\* arrived: the list of each request that has returned is held at the place
\* of that request.
C1_FanOutOrder ==
    ~OneCount =>
        /\ \A k \in 1..Len(sent) : fut[k] = "done" => result[k] = SubResult(k)
        /\ pc = "printed" =>
               rhymes = SubResult(1) \o SubResult(2) \o SubResult(3)
                        \o SubResult(4) \o SubResult(5) \o SubResult(6)
                        \o SubResult(7) \o SubResult(8)

\* the output of a fan-out in which an answer overtook an earlier request
C1_Witness ==
    /\ pc = "printed"
    /\ ~OneCount
    /\ overtaken
    /\ SubResult(1) # SubResult(2)
    /\ rhymes # <<>>

\* C2: in fan-out mode, when one of the eight requests fails, nothing is
\* written to standard output and the run does not end with a result: once
\* no request is left in flight it has ended in failure; output comes only
\* from runs in which every request succeeded.
C2_FailFast ==
    /\ (~OneCount /\ \E n \in 1..8 : RequestFails(n)) =>
           /\ stdout = <<>>
           /\ pc # "printed"
           /\ \A k \in 1..Len(sent) :
                  RequestFails(Unwrap(sent[k].options.syllables)) => fut[k] # "done"
           /\ (pc # "start" /\ \A k \in 1..Len(sent) : fut[k] # "pending")
                  => pc = "panicked"
    /\ stdout # <<>> =>
           /\ pc = "printed"
           /\ \A k \in 1..Len(sent) :
                  fut[k] = "done" /\ ~RequestFails(Unwrap(sent[k].options.syllables))

\* the request for 5 syllables fails after the seven others succeeded
C2_Witness ==
    /\ ~OneCount
    /\ RequestFails(5)
    /\ pc = "panicked"
    /\ Len(sent) = 8
    /\ fut[5] = "failed"
    /\ \A k \in (1..8) \ {5} : fut[k] = "done"
    /\ stdout = <<>>

C8_NoRequestAbandoned ==
    (~OneCount /\ pc \in {"printed", "panicked"}) =>
        \A k \in 1..Len(sent) : fut[k] # "pending"

\* the lines of the output: the pieces closed by a line feed
Lines(text) == Segments(text, "\n")

\* the words of the output: its lines that are not empty
WordsOf(text) == SelectSeq(Lines(text), LAMBDA line : line # <<>>)

\* how many times w occurs in words
Count(w, words) == Cardinality({k \in 1..Len(words) : words[k] = w})

RECURSIVE Sum(_, _)
\* f[1] + ... + f[n]
Sum(f, n) == IF n = 0 THEN 0 ELSE Sum(f, n - 1) + f[n]

\* C9: in a fan-out that succeeds, standard output holds as many words as
\* the eight sub-results together, a word as many times as it occurs in
\* them, each on a line of its own.
C9_NoDeduplication ==
    (pc = "printed" /\ ~OneCount) =>
        LET printed == WordsOf(stdout)
        IN  /\ stdout[Len(stdout)] = "\n"
            /\ Len(printed) = Sum([k \in 1..8 |-> Len(SubResult(k))], 8)
            /\ \A w \in Words :
                   Count(w, printed)
                   = Sum([k \in 1..8 |-> Count(w, SubResult(k))], 8)
            /\ \A k \in 1..Len(printed) : printed[k] \in Words
            /\ Len(printed) > 0 => Len(Lines(stdout)) = Len(printed)

\* a word that the service lists under several syllable counts is printed
\* once for each
C9_Witness ==
    /\ pc = "printed"
    /\ ~OneCount
    /\ Count(WordA, SubResult(1)) = 1
    /\ Count(WordA, SubResult(3)) = 1
    /\ Count(WordA, WordsOf(stdout)) = 4

StartsWith(text, prefix) ==
    Len(text) >= Len(prefix) /\ SubSeq(text, 1, Len(prefix)) = prefix

\* the integer written in text from position `from` up to the next semicolon
ValueAt(text, from) == ReadInt(SubSeq(text, from, Scan(text, ";", from) - 1))

====
